---- MODULE Spec2Model ----
(***************************************************************************)
(* Model of route_check.py: the construction of a RouteView (the snapshot  *)
(* log /tmp/route_view.log, the refresh decision, the login retry loop,    *)
(* the normalisation of the parsed "show ip bgp" records and the append of *)
(* the new record), run as a sequence of invocations of the `show`         *)
(* command (Spec); what show does with the constructed object, the         *)
(* rendering and the hand-over to Slack (SpecShow); and the normalisation   *)
(* and the pattern search as functions of their inputs (SpecFn).           *)
(*                                                                         *)
(* Time is counted in hours.  One invocation lasts seconds to minutes      *)
(* (five 3-second sleeps, a 120-second read timeout), so the clock moves   *)
(* between invocations only.                                               *)
(* Networks are numbered so that the numeric order is the order of the     *)
(* prefix strings.  Characters are one-character strings.                  *)
(***************************************************************************)
EXTENDS Integers, Sequences, FiniteSets, TLC

\* ---- bounds of the model
MaxLog == 2
MaxClock == 16
MaxRecords == 2
MaxTokens == 3

\* ---- constants of the program
RETRIES == 5
REFRESH_HOURS == 8

\* the clock moves in steps of the refresh period: a record is 0, 8, 16.. hours old
ClockStep == REFRESH_HOURS

VARIABLES
    log,          \* lines of FILENAME, oldest first; each line is a dumped record
    fileExists,   \* os.path.exists(FILENAME)
    clock,        \* datetime.datetime.now(), hours
    pc,           \* position of the running invocation
    asn,          \* self.asn, a character sequence
    refresh,      \* self.refresh
    intent_ok,    \* the intent file exists and is well-formed YAML
    vffCaller,    \* which call of _view_from_file is running: "first" (165), "final" (173)
    fetchCaller,  \* which call of _view_from_route_server is running: 153, 157, 167, 172
    retry,        \* local of _view_from_route_server
    success,      \* local of _view_from_route_server
    latest_view,  \* local of _get_view: <<>> for None, <<view>> otherwise
    view,         \* self.view: <<>> while unset, <<view>> otherwise
    error,        \* the exception that ended the invocation, "none" otherwise
    \* ---- history variables (never read by the program's steps)
    fetches,      \* calls of _view_from_route_server in this invocation
    appended,     \* records written by this invocation
    opened,       \* a ConnectHandler attempt was made in this invocation
    attempts,     \* ConnectHandler attempts in the running fetch
    authFails,    \* authentication failures in the running fetch
    sleeps,       \* sleep(3) calls in the running fetch
    issued,       \* send_command calls in the running fetch
    lastOutcome,  \* outcome of the latest ConnectHandler attempt of the running fetch
    log0,         \* the log when the invocation started
    exists0,      \* fileExists when the invocation started
    now0,         \* the clock when the invocation started
    fetchLog,     \* the log when the running fetch started
    fetchExists,  \* fileExists when the running fetch started
    lastReport,   \* the report (line 126) of the latest successful fetch: <<>> or <<report>>
    lastAsn,      \* the ASN the last record of the log was queried for, <<>> if none
    \* ---- show (lines 285-328) after the construction of the RouteView
    intent,       \* self.intent: a function from networks to lists of AS numbers
    output_type,  \* -O
    channel,      \* -S was given
    alerts_only,  \* -A
    token,        \* SLACK_API_TOKEN is set
    content,      \* the rendered text: <<>> before it is rendered, <<text>> after
    echoed,       \* click.secho(content) was called
    written,      \* the file of line 199-201 was written
    handed,       \* post_to_channel was called
    uploaded,     \* files_upload_v2 was called
    reported,     \* the failure was printed (line 56)
    \* ---- SpecFn
    fn            \* the function under study, its input and, once applied, its output

progVars == <<log, fileExists, clock, pc, asn, refresh, intent_ok, vffCaller,
              fetchCaller, retry, success, latest_view, view, error>>
histVars == <<fetches, appended, opened, attempts, authFails, sleeps, issued,
              lastOutcome, log0, exists0, now0, fetchLog, fetchExists, lastReport>>
showVars == <<intent, output_type, channel, alerts_only, token, content, echoed,
              written, handed, uploaded, reported>>
vars == <<progVars, histVars, lastAsn, showVars, fn>>

\* ---- inputs --------------------------------------------------------------

\* the ASN argument of the command
Asns == {<<"1">>, <<"1", "2">>}

\* the as_path strings of the parsed records: "2 1", "3 1", "3 12", "x 1"
AsPaths == {<<"2", " ", "1">>, <<"3", " ", "1">>, <<"3", " ", "1", "2">>,
            <<"x", " ", "1">>}

\* the records the parser returns: network 1 on every path, network 2 on one
Records == [network : {1}, as_path : AsPaths]
             \cup {[network |-> 2, as_path |-> <<"2", " ", "1">>]}

\* what parse_output can return: sequences of at most MaxRecords records
ParsedInputs == UNION {[1..n -> Records] : n \in 0..MaxRecords}

\* the tokens of the AS paths on which the pattern search is studied
FnTokens == {<<"1">>, <<"2">>, <<"3">>, <<"1", "2">>}

\* an AS path in tokens: 1 to MaxTokens of them
FnTokenPaths == UNION {[1..n -> FnTokens] : n \in 1..MaxTokens}

\* the as_path string of a token path: the tokens joined by single spaces
RECURSIVE join_tokens(_)
join_tokens(ts) ==
    IF Len(ts) = 1 THEN ts[1]
    ELSE ts[1] \o <<" ">> \o join_tokens(Tail(ts))

\* ---- pure helpers ----------------------------------------------------------

None == <<>>
Some(v) == <<v>>

Digits == {"0", "1", "2", "3", "4", "5", "6", "7", "8", "9"}

DigitVal == [c \in Digits |->
    CASE c = "0" -> 0 [] c = "1" -> 1 [] c = "2" -> 2 [] c = "3" -> 3
      [] c = "4" -> 4 [] c = "5" -> 5 [] c = "6" -> 6 [] c = "7" -> 7
      [] c = "8" -> 8 [] c = "9" -> 9]

\* \w of the regular expression: letters, digits and the underscore
IsWordChar(c) == c \in Digits \cup {"x", "_"}

\* "(\w+) <asn>" matches s with the group on s[i..j]
MatchAt(s, a, i, j) ==
    /\ i <= j
    /\ \A k \in i..j : IsWordChar(s[k])
    /\ j + 1 + Len(a) <= Len(s)
    /\ s[j + 1] = " "
    /\ \A k \in 1..Len(a) : s[j + 1 + k] = a[k]

\* pattern.search(as_path): the leftmost match, its group the longest possible;
\* None when nothing matches, otherwise the text of group 1
pattern_search(s, a) ==
    LET starts == {i \in 1..Len(s) : \E j \in i..Len(s) : MatchAt(s, a, i, j)}
    IN  IF starts = {} THEN None
        ELSE LET i == CHOOSE x \in starts : \A y \in starts : x <= y
                 ends == {j \in i..Len(s) : MatchAt(s, a, i, j)}
                 j == CHOOSE x \in ends : \A y \in ends : y <= x
             IN  Some(SubSeq(s, i, j))

\* int(str(group)) raises ValueError unless the text is a decimal number
IntParses(t) == \A k \in 1..Len(t) : t[k] \in Digits

RECURSIVE IntOf(_)
IntOf(t) == IF t = <<>> THEN 0
            ELSE 10 * IntOf(SubSeq(t, 1, Len(t) - 1)) + DigitVal[t[Len(t)]]

\* insertion of x into an ascending sequence
RECURSIVE Insert(_, _)
Insert(x, s) == IF s = <<>> THEN <<x>>
                ELSE IF x <= Head(s) THEN <<x>> \o s
                ELSE <<Head(s)>> \o Insert(x, Tail(s))

\* list.sort()
RECURSIVE list_sort(_)
list_sort(s) == IF s = <<>> THEN <<>> ELSE Insert(Head(s), list_sort(Tail(s)))

Contains(s, x) == \E k \in 1..Len(s) : s[k] = x

\* list(dict.fromkeys(path)): the first occurrence of each value, in order
RECURSIVE fromkeys(_)
fromkeys(s) ==
    IF s = <<>> THEN <<>>
    ELSE LET front == fromkeys(SubSeq(s, 1, Len(s) - 1))
         IN  IF Contains(front, s[Len(s)]) THEN front ELSE Append(front, s[Len(s)])

\* lines 110-111: the networks of the parsed records, sorted
RECURSIVE networks_of(_)
networks_of(parsed) ==
    IF parsed = <<>> THEN <<>>
    ELSE <<Head(parsed).network>> \o networks_of(Tail(parsed))

prefix_list(parsed) == list_sort(networks_of(parsed))

\* line 113 with the keys taken in the order of the records
data_keys_unsorted(parsed) == fromkeys(networks_of(parsed))

\* line 113: the keys of data, in insertion order (a repeated key is kept once)
data_keys(parsed) == fromkeys(prefix_list(parsed))

\* lines 115-119: the groups matched in the records of one network, in record order
RECURSIVE groups_of(_, _, _)
groups_of(parsed, a, n) ==
    IF parsed = <<>> THEN <<>>
    ELSE LET item == Head(parsed)
             match == pattern_search(item.as_path, a)
         IN  (IF item.network = n /\ match # None THEN match ELSE <<>>)
               \o groups_of(Tail(parsed), a, n)

\* line 119 raises ValueError on the first group that is not a number
NormalizeOk(parsed, a) ==
    \A k \in 1..Len(parsed) :
        LET match == pattern_search(parsed[k].as_path, a)
        IN  match # None => IntParses(match[1])

appended_ints(parsed, a, n) ==
    LET g == groups_of(parsed, a, n)
    IN  [k \in 1..Len(g) |-> IntOf(g[k])]

\* lines 122-124 without path.sort()
normalize_path_unsorted(path) == fromkeys(path)

\* lines 122-124
normalize_path(path) == fromkeys(list_sort(path))

\* lines 113-124: data, as the sequence of its items in insertion order
build_data(parsed, a) ==
    LET keys == data_keys(parsed)
    IN  [k \in 1..Len(keys) |->
            [network |-> keys[k],
             path |-> normalize_path(appended_ints(parsed, a, keys[k]))]]

\* line 126
build_report(timestamp, parsed, a) ==
    [timestamp |-> timestamp, contents |-> build_data(parsed, a)]

\* json.dumps(report): the record as a flat sequence of numbers,
\* <<timestamp, number of keys, (key, length of list, list...)...>>
RECURSIVE dump_contents(_)
dump_contents(c) ==
    IF c = <<>> THEN <<>>
    ELSE <<Head(c).network, Len(Head(c).path)>> \o Head(c).path
           \o dump_contents(Tail(c))

json_dumps(r) == <<r.timestamp, Len(r.contents)>> \o dump_contents(r.contents)

\* json.loads(line)
RECURSIVE load_contents(_, _)
load_contents(s, n) ==
    IF n = 0 THEN <<>>
    ELSE LET len == s[2]
         IN  <<[network |-> s[1], path |-> SubSeq(s, 3, 2 + len)]>>
               \o load_contents(SubSeq(s, 3 + len, Len(s)), n - 1)

json_loads(s) ==
    [timestamp |-> s[1], contents |-> load_contents(SubSeq(s, 3, Len(s)), s[2])]

\* line 128 with mode "w": the file is truncated
write_line_truncating(lines, line) == <<line>>

\* line 128-129: open(FILENAME, "a") and write one line
write_line(lines, line) == Append(lines, line)

\* _read_file without the test of line 146: lines[-1] of an empty list raises;
\* and _read_file taking lines[0]
read_file_unguarded(exists, lines) ==
    IF ~exists \/ lines = <<>> THEN [raised |-> TRUE, value |-> None]
    ELSE [raised |-> FALSE, value |-> Some(json_loads(lines[Len(lines)]))]

read_file_first(exists, lines) ==
    IF ~exists THEN [raised |-> TRUE, value |-> None]
    ELSE IF lines = <<>> THEN [raised |-> FALSE, value |-> None]
    ELSE [raised |-> FALSE, value |-> Some(json_loads(lines[1]))]

\* _read_file (lines 139-150): raised stands for an exception
read_file(exists, lines) ==
    IF ~exists THEN [raised |-> TRUE, value |-> None]
    ELSE IF lines = <<>> THEN [raised |-> FALSE, value |-> None]
    ELSE [raised |-> FALSE, value |-> Some(json_loads(lines[Len(lines)]))]

\* line 86 with retry >= 0
loop_continues_once_more(succ, r) == ~succ /\ r >= 0

\* line 86: the loop condition
loop_continues(succ, r) == ~succ /\ r >= 1

\* line 94 with a bare except
is_retried_any(outcome) == outcome # "ok"

\* line 94: the exceptions the except clause catches
is_retried(outcome) == outcome = "auth"

\* line 171 with <=
is_stale_inclusive(view_time, time_now) == view_time <= time_now - REFRESH_HOURS

\* line 171
is_stale(view_time, time_now) == view_time < time_now - REFRESH_HOURS

\* lines 108-129 with the file opened and the timestamp written before the
\* records are normalised
fetch_result_early_write(exists, lines, timestamp, parsed, a) ==
    IF NormalizeOk(parsed, a)
    THEN LET report == build_report(timestamp, parsed, a)
         IN  [ok |-> TRUE, exists |-> TRUE, report |-> Some(report),
              lines |-> write_line(lines, json_dumps(report))]
    ELSE [ok |-> FALSE, exists |-> TRUE, report |-> None,
          lines |-> write_line(lines, <<timestamp, 0>>)]

\* lines 108-129 for one parser result: the report and the file afterwards
fetch_result(exists, lines, timestamp, parsed, a) ==
    IF NormalizeOk(parsed, a)
    THEN LET report == build_report(timestamp, parsed, a)
         IN  [ok |-> TRUE, exists |-> TRUE, report |-> Some(report),
              lines |-> write_line(lines, json_dumps(report))]
    ELSE [ok |-> FALSE, exists |-> exists, report |-> None, lines |-> lines]

\* ---- the state machine ---------------------------------------------------

\* the variables of show before line 318: nothing rendered, nothing sent
ShowUnset ==
    /\ intent = <<>>
    /\ output_type = "normal"
    /\ channel = FALSE
    /\ alerts_only = FALSE
    /\ token = FALSE
    /\ content = None
    /\ echoed = FALSE
    /\ written = FALSE
    /\ handed = FALSE
    /\ uploaded = FALSE
    /\ reported = FALSE

\* no function is under study
FnOff == [stage |-> "off", op |-> "none", parsed |-> <<>>, tokens |-> <<>>,
          a |-> <<>>, out |-> <<>>]

Fresh ==
    /\ log = <<>>
    /\ fileExists \in BOOLEAN
    /\ clock = 0
    /\ pc = "idle"
    /\ asn = <<"1">>
    /\ refresh = FALSE
    /\ intent_ok = TRUE
    /\ vffCaller = "none"
    /\ fetchCaller = "none"
    /\ retry = 0
    /\ success = FALSE
    /\ latest_view = None
    /\ view = None
    /\ error = "none"
    /\ fetches = 0
    /\ appended = 0
    /\ opened = FALSE
    /\ attempts = 0
    /\ authFails = 0
    /\ sleeps = 0
    /\ issued = 0
    /\ lastOutcome = "none"
    /\ log0 = <<>>
    /\ exists0 = fileExists
    /\ now0 = 0
    /\ fetchLog = <<>>
    /\ fetchExists = fileExists
    /\ lastReport = None
    /\ lastAsn = <<>>

\* before the first invocation
Init ==
    /\ Fresh
    /\ ShowUnset
    /\ fn = FnOff

fetchLocals == <<retry, success>>
fetchHist == <<attempts, authFails, sleeps, issued, lastOutcome>>
fetchStart == <<fetchLog, fetchExists>>
invHist == <<log0, exists0, now0>>
inputs == <<asn, refresh, intent_ok>>
store == <<log, fileExists, lastAsn>>

\* time passes between two invocations
Tick ==
    /\ pc = "idle"
    /\ clock + ClockStep <= MaxClock
    /\ clock' = clock + ClockStep
    /\ UNCHANGED <<store, pc, inputs, vffCaller, fetchCaller, fetchLocals,
                   latest_view, view, error, histVars>>
    /\ UNCHANGED <<showVars, fn>>

\* show (lines 310-316) up to RouteView.__init__ line 76: self.view = self._get_view(),
\* which starts with the first _view_from_file() (line 165)
Invoke(a, r, ok) ==
    /\ pc = "idle"
    /\ Len(log) < MaxLog
    /\ asn' = a
    /\ refresh' = r
    /\ intent_ok' = ok
    /\ pc' = "vff_exists"
    /\ vffCaller' = "first"
    /\ log0' = log
    /\ exists0' = fileExists
    /\ now0' = clock
    /\ fetchLog' = log
    /\ fetchExists' = fileExists
    /\ UNCHANGED <<store, clock, fetchCaller, fetchLocals, latest_view, view, error,
                   fetches, appended, opened, fetchHist, lastReport>>
    /\ UNCHANGED <<showVars, fn>>

\* the process ends (normally or with the exception): its memory is gone
Exit ==
    /\ pc \in {"done", "failed"}
    /\ pc' = "idle"
    /\ asn' = <<"1">>
    /\ refresh' = FALSE
    /\ intent_ok' = TRUE
    /\ vffCaller' = "none"
    /\ fetchCaller' = "none"
    /\ retry' = 0
    /\ success' = FALSE
    /\ latest_view' = None
    /\ view' = None
    /\ error' = "none"
    /\ fetches' = 0
    /\ appended' = 0
    /\ opened' = FALSE
    /\ attempts' = 0
    /\ authFails' = 0
    /\ sleeps' = 0
    /\ issued' = 0
    /\ lastOutcome' = "none"
    /\ log0' = log
    /\ exists0' = fileExists
    /\ now0' = clock
    /\ fetchLog' = log
    /\ fetchExists' = fileExists
    /\ lastReport' = None
    /\ UNCHANGED <<store, clock>>
    /\ UNCHANGED <<showVars, fn>>

\* a call of _view_from_route_server() from the given line: lines 84-85
StartFetch(site) ==
    /\ pc' = "connect"
    /\ fetchCaller' = site
    /\ retry' = RETRIES
    /\ success' = FALSE
    /\ fetches' = fetches + 1
    /\ attempts' = 0
    /\ authFails' = 0
    /\ sleeps' = 0
    /\ issued' = 0
    /\ lastOutcome' = "none"
    /\ fetchLog' = log
    /\ fetchExists' = fileExists

\* what a step that calls _view_from_route_server leaves alone
StartFetchUnchanged ==
    UNCHANGED <<store, clock, inputs, vffCaller, latest_view, view, error, appended,
                opened, invHist, lastReport>>

\* an exception is caught and the constructor carries on
raise_swallowed(e) ==
    /\ pc' = "load_intent"
    /\ error' = error

\* an exception leaves the invocation
Raise(e) ==
    /\ pc' = "failed"
    /\ error' = e

\* return latest_view (line 159) to line 165 or to line 173
VffReturn(lv) ==
    IF vffCaller = "first"
    THEN /\ latest_view' = lv
         /\ pc' = "gv_decide"
         /\ UNCHANGED view
    ELSE /\ view' = lv
         /\ pc' = "load_intent"
         /\ UNCHANGED latest_view

\* lines 152-153
VffExists ==
    /\ pc = "vff_exists"
    /\ IF ~fileExists
       THEN /\ StartFetch("153")
            /\ StartFetchUnchanged
       ELSE /\ pc' = "vff_read"
            /\ UNCHANGED <<store, clock, inputs, vffCaller, fetchCaller, fetchLocals,
                           latest_view, view, error, histVars>>
    /\ UNCHANGED <<showVars, fn>>

\* lines 155-157 and 159
VffRead ==
    /\ pc = "vff_read"
    /\ LET r == read_file(fileExists, log)
       IN  IF r.raised
           THEN /\ Raise("read")
                /\ UNCHANGED <<store, clock, inputs, vffCaller, fetchCaller,
                               fetchLocals, latest_view, view, histVars>>
           ELSE IF r.value = None
           THEN /\ StartFetch("157")
                /\ StartFetchUnchanged
           ELSE /\ VffReturn(r.value)
                /\ UNCHANGED <<store, clock, inputs, vffCaller, fetchCaller,
                               fetchLocals, error, histVars>>
    /\ UNCHANGED <<showVars, fn>>

\* lines 158-159
VffReread ==
    /\ pc = "vff_reread"
    /\ LET r == read_file(fileExists, log)
       IN  IF r.raised
           THEN /\ Raise("read")
                /\ UNCHANGED <<store, clock, inputs, vffCaller, fetchCaller,
                               fetchLocals, latest_view, view, histVars>>
           ELSE /\ VffReturn(r.value)
                /\ UNCHANGED <<store, clock, inputs, vffCaller, fetchCaller,
                               fetchLocals, error, histVars>>
    /\ UNCHANGED <<showVars, fn>>

\* lines 166-173: the refresh decision, then the final _view_from_file()
GetViewDecide ==
    /\ pc = "gv_decide"
    /\ IF latest_view = None \/ refresh
       THEN /\ StartFetch("167")
            /\ StartFetchUnchanged
       ELSE IF is_stale(latest_view[1].timestamp, clock)
       THEN /\ StartFetch("172")
            /\ StartFetchUnchanged
       ELSE /\ pc' = "vff_exists"
            /\ vffCaller' = "final"
            /\ UNCHANGED <<store, clock, inputs, fetchCaller, fetchLocals,
                           latest_view, view, error, histVars>>
    /\ UNCHANGED <<showVars, fn>>

ConnectOutcomes == {"ok", "auth", "other"}

\* lines 86-94 and 98: one pass of the loop body up to the outcome of ConnectHandler
Connect(outcome) ==
    /\ pc = "connect"
    /\ loop_continues(success, retry)
    /\ opened' = TRUE
    /\ attempts' = attempts + 1
    /\ lastOutcome' = outcome
    /\ IF outcome = "ok"
       THEN /\ success' = TRUE
            /\ pc' = "query"
            /\ UNCHANGED <<error, authFails>>
       ELSE IF is_retried(outcome)
       THEN /\ pc' = "sleep"
            /\ authFails' = authFails + 1
            /\ UNCHANGED <<success, error>>
       ELSE /\ Raise("transport")
            /\ UNCHANGED <<success, authFails>>
    /\ UNCHANGED <<store, clock, inputs, vffCaller, fetchCaller, retry, latest_view,
                   view, fetches, appended, sleeps, issued, invHist, fetchStart,
                   lastReport>>
    /\ UNCHANGED <<showVars, fn>>

\* lines 95-99: sleep(3), retry -= 1, the loop test and the raise after the loop
Sleep ==
    /\ pc = "sleep"
    /\ sleeps' = sleeps + 1
    /\ retry' = retry - 1
    /\ IF loop_continues(success, retry - 1)
       THEN pc' = "connect" /\ UNCHANGED error
       ELSE Raise("exhausted")
    /\ UNCHANGED <<store, clock, inputs, vffCaller, fetchCaller, success, latest_view,
                   view, fetches, appended, opened, attempts, authFails, issued,
                   lastOutcome, invHist, fetchStart, lastReport>>
    /\ UNCHANGED <<showVars, fn>>

\* where _view_from_route_server returns to
AfterFetch ==
    CASE fetchCaller = "153" -> "vff_read"
      [] fetchCaller = "157" -> "vff_reread"
      [] OTHER -> "vff_exists"

\* lines 100-107 fail: send_command or parse_output raises
QueryFails(e) ==
    /\ pc = "query"
    /\ issued' = issued + 1
    /\ Raise(e)
    /\ UNCHANGED <<store, clock, inputs, vffCaller, fetchCaller, fetchLocals,
                   latest_view, view, fetches, appended, opened, attempts, authFails,
                   sleeps, lastOutcome, invHist, fetchStart, lastReport>>
    /\ UNCHANGED <<showVars, fn>>

\* lines 100-107 succeed.  retry and success are not read after line 98: the
\* model drops them, and the counts of the login loop, here
QueryReturns ==
    /\ pc = "query"
    /\ pc' = "normalize"
    /\ issued' = issued + 1
    /\ retry' = 0
    /\ success' = FALSE
    /\ attempts' = 0
    /\ authFails' = 0
    /\ sleeps' = 0
    /\ lastOutcome' = "none"
    /\ UNCHANGED <<store, clock, inputs, vffCaller, fetchCaller, latest_view, view,
                   error, fetches, appended, opened, invHist, fetchStart, lastReport>>
    /\ UNCHANGED <<showVars, fn>>

\* lines 108-129 with the result res of the records the parser returned, and the
\* return to the caller
Normalize(res) ==
    /\ pc = "normalize"
    /\ log' = res.lines
    /\ fileExists' = res.exists
    /\ lastAsn' = IF res.ok THEN asn ELSE lastAsn
    /\ IF res.ok
       THEN /\ pc' = AfterFetch
            /\ vffCaller' = IF fetchCaller \in {"167", "172"} THEN "final" ELSE vffCaller
            /\ appended' = appended + 1
            /\ lastReport' = res.report
            /\ issued' = 0
            /\ UNCHANGED error
       ELSE /\ Raise("normalize")
            /\ UNCHANGED <<vffCaller, appended, lastReport, issued>>
    /\ UNCHANGED <<clock, inputs, fetchCaller, fetchLocals, latest_view, view,
                   fetches, opened, attempts, authFails, sleeps, lastOutcome, invHist,
                   fetchStart>>
    /\ UNCHANGED <<showVars, fn>>

\* the results of lines 108-129 over everything the parser can return
FetchResults ==
    {fetch_result(fileExists, log, clock, parsed, asn) : parsed \in ParsedInputs}

\* lines 108-129 for some list of records returned by the parser
NormalizeAny == pc = "normalize" /\ \E res \in FetchResults : Normalize(res)

\* lines 77-78: the intent file is loaded after the view
LoadIntent ==
    /\ pc = "load_intent"
    /\ IF intent_ok
       THEN pc' = "done" /\ UNCHANGED error
       ELSE Raise("intent")
    /\ UNCHANGED <<store, clock, inputs, vffCaller, fetchCaller, fetchLocals,
                   latest_view, view, histVars>>
    /\ UNCHANGED <<showVars, fn>>

Next ==
    \/ Tick
    \/ \E a \in Asns, r \in BOOLEAN, ok \in BOOLEAN : Invoke(a, r, ok)
    \/ Exit
    \/ VffExists
    \/ VffRead
    \/ VffReread
    \/ GetViewDecide
    \/ \E o \in ConnectOutcomes : Connect(o)
    \/ Sleep
    \/ \E e \in {"query", "parse"} : QueryFails(e)
    \/ QueryReturns
    \/ NormalizeAny
    \/ LoadIntent

Spec == Init /\ [][Next]_vars

\* ---- the functions on their own (SpecFn) -----------------------------------

\* the inputs: the records of a parser result and an ASN for lines 109-124, one
\* record of network 1 on a token path and an ASN for lines 116-117
FnInputs ==
    {[stage |-> "in", op |-> "normalize", parsed |-> parsed, tokens |-> <<>>,
      a |-> a, out |-> <<>>] : parsed \in ParsedInputs, a \in Asns}
    \cup
    {[stage |-> "in", op |-> "search",
      parsed |-> <<[network |-> 1, as_path |-> join_tokens(ts)]>>, tokens |-> ts,
      a |-> a, out |-> <<>>] : ts \in FnTokenPaths, a \in Asns}

InitFn ==
    /\ Fresh
    /\ ShowUnset
    /\ fn \in FnInputs

\* lines 109-124: data for the records, None when line 119 raises
ApplyNormalize ==
    /\ fn.stage = "in"
    /\ fn.op = "normalize"
    /\ fn' = [fn EXCEPT !.stage = "out",
                        !.out = IF NormalizeOk(fn.parsed, fn.a)
                                THEN Some(build_data(fn.parsed, fn.a))
                                ELSE None]
    /\ UNCHANGED <<progVars, histVars, lastAsn, showVars>>

\* lines 116-117 on one record: the text of group 1, None without a match
ApplySearch ==
    /\ fn.stage = "in"
    /\ fn.op = "search"
    /\ fn' = [fn EXCEPT !.stage = "out",
                        !.out = pattern_search(fn.parsed[1].as_path, fn.a)]
    /\ UNCHANGED <<progVars, histVars, lastAsn, showVars>>

NextFn ==
    \/ ApplyNormalize
    \/ ApplySearch

SpecFn == InitFn /\ [][NextFn]_vars

\* ---- show after the construction (SpecShow) --------------------------------

\* line 28
OUTPUT_TYPES == {"normal", "verbose", "alert", "json"}

\* the intent document: a mapping from prefixes to lists of AS numbers
IntentPaths == {<<>>, <<2>>, <<2, 3>>, <<3, 2>>}
Intents == UNION {[d -> IntentPaths] : d \in SUBSET {1, 2}}

\* a piece of rendered text: a marker, a finding or a line, with the values
\* formatted into it
Piece(kind, network, declared, observed) ==
    [kind |-> kind, network |-> network, declared |-> declared, observed |-> observed]

\* line 228 with the lists compared as sets
differs_as_sets(declared, path) ==
    {declared[k] : k \in 1..Len(declared)} # {path[k] : k \in 1..Len(path)}

\* line 228: self.intent[prefix] != path, on lists
differs(declared, path) == declared # path

\* lines 223-233: output, over the items of the contents in their order
RECURSIVE alert_output(_, _)
alert_output(contents, it) ==
    IF contents = <<>> THEN <<>>
    ELSE LET prefix == Head(contents).network
             path == Head(contents).path
         IN  (IF prefix \notin DOMAIN it
              THEN <<Piece("not_found", prefix, <<>>, <<>>)>>
              ELSE IF differs(it[prefix], path)
                   THEN <<Piece("mismatch", prefix, it[prefix], path)>>
                   ELSE <<>>)
             \o alert_output(Tail(contents), it)

\* the prefixes of the intent in ascending order
RECURSIVE ascending(_)
ascending(S) ==
    IF S = {} THEN <<>>
    ELSE LET m == CHOOSE x \in S : \A y \in S : x <= y
         IN  <<m>> \o ascending(S \ {m})

intent_keys(it) == ascending(DOMAIN it)

\* findings for the prefixes of the intent that the contents lack
RECURSIVE missing_output(_, _, _)
missing_output(keys, contents, it) ==
    IF keys = <<>> THEN <<>>
    ELSE (IF \E k \in 1..Len(contents) : contents[k].network = Head(keys)
          THEN <<>>
          ELSE <<Piece("mismatch", Head(keys), it[Head(keys)], <<>>)>>)
         \o missing_output(Tail(keys), contents, it)

\* lines 217-236 with the prefixes of the intent examined as well
alert_view_both_ways(v, it) ==
    LET output == alert_output(v.contents, it)
                  \o missing_output(intent_keys(it), v.contents, it)
    IN  IF output # <<>>
        THEN <<Piece("CRITICAL", 0, <<>>, <<>>)>> \o output
        ELSE <<Piece("OK", 0, <<>>, <<>>), Piece("no_alerts", 0, <<>>, <<>>)>>

\* lines 217-236: errors is set exactly where a finding is added to output
alert_view(v, it) ==
    LET output == alert_output(v.contents, it)
        errors == output # <<>>
    IN  IF errors
        THEN <<Piece("CRITICAL", 0, <<>>, <<>>)>> \o output
        ELSE <<Piece("OK", 0, <<>>, <<>>), Piece("no_alerts", 0, <<>>, <<>>)>>

\* lines 238-251: one line per item; no prefix and no AS number of the inputs
\* has an alias in PREFIX_TRANSLATE or PEER_TRANSLATE
normal_view(v) ==
    [k \in 1..Len(v.contents) |->
        Piece("normal", v.contents[k].network, <<>>, v.contents[k].path)]

\* lines 204-215
verbose_view(v) ==
    [k \in 1..Len(v.contents) |->
        Piece("verbose", v.contents[k].network, <<>>, v.contents[k].path)]

\* lines 321-328: the content argument of _parse_output
render(ot, v, it) ==
    IF ot = "json" THEN <<Piece("json", 0, <<>>, json_dumps(v))>>
    ELSE IF ot = "verbose" THEN verbose_view(v)
    ELSE IF ot = "alert" THEN alert_view(v, it)
    ELSE normal_view(v)

\* line 197: "CRITICAL" in content; of the texts formatted into the content only
\* the marker of line 236 holds the word
contains_critical(c) == \E k \in 1..Len(c) : c[k].kind = "CRITICAL"

\* line 197 without the test of the content
suppressed_when_alerts_only(c, ao) == ao

\* line 197: the condition of the early return
suppressed(c, ao) == ~contains_critical(c) /\ ao

\* a first fetch on an absent store: the ASN and the report of lines 109-126
ShowFetches ==
    {<<f[2], build_report(0, f[1], f[2])>> :
        f \in {g \in ParsedInputs \X Asns : NormalizeOk(g[1], g[2])}}

\* show after RouteView(...) returned (line 316) from a first fetch on an absent
\* store, with the options of lines 256-284, the intent loaded on line 78 and the
\* environment of line 47
InitShow ==
    /\ \E f \in ShowFetches :
        /\ asn = f[1]
        /\ lastAsn = f[1]
        /\ log = <<json_dumps(f[2])>>
        /\ lastReport = Some(f[2])
        /\ latest_view = read_file(TRUE, <<json_dumps(f[2])>>).value
        /\ view = read_file(TRUE, <<json_dumps(f[2])>>).value
    /\ fileExists = TRUE
    /\ clock = 0
    /\ pc = "done"
    /\ refresh = FALSE
    /\ intent_ok = TRUE
    /\ vffCaller = "final"
    /\ fetchCaller = "153"
    /\ retry = 0
    /\ success = FALSE
    /\ error = "none"
    /\ fetches = 1
    /\ appended = 1
    /\ opened = TRUE
    /\ attempts = 0
    /\ authFails = 0
    /\ sleeps = 0
    /\ issued = 0
    /\ lastOutcome = "none"
    /\ log0 = <<>>
    /\ exists0 = FALSE
    /\ now0 = 0
    /\ fetchLog = <<>>
    /\ fetchExists = FALSE
    /\ intent \in Intents
    /\ output_type \in OUTPUT_TYPES
    /\ channel \in BOOLEAN
    /\ alerts_only \in BOOLEAN
    /\ token \in BOOLEAN
    /\ content = None
    /\ echoed = FALSE
    /\ written = FALSE
    /\ handed = FALSE
    /\ uploaded = FALSE
    /\ reported = FALSE
    /\ fn = FnOff

showHist == <<echoed, written, handed, uploaded, reported>>
options == <<intent, output_type, channel, alerts_only, token>>
construction == <<log, fileExists, clock, asn, refresh, intent_ok, vffCaller,
                  fetchCaller, retry, success, latest_view, view, histVars, lastAsn>>

\* lines 318-328: the content for the output type, passed to _parse_output
Render ==
    /\ pc = "done"
    /\ content' = Some(render(output_type, view[1], intent))
    /\ pc' = "parse_output"
    /\ UNCHANGED <<construction, error, options, showHist, fn>>

\* lines 299-308: to view_to_slack with a channel, echoed otherwise
ParseOutput ==
    /\ pc = "parse_output"
    /\ IF channel
       THEN pc' = "view_to_slack" /\ UNCHANGED echoed
       ELSE pc' = "shown" /\ echoed' = TRUE
    /\ UNCHANGED <<construction, error, options, content, written, handed,
                   uploaded, reported, fn>>

\* lines 197-202: return early, or write the file and call post_to_channel
ViewToSlack ==
    /\ pc = "view_to_slack"
    /\ IF suppressed(content[1], alerts_only)
       THEN pc' = "shown" /\ UNCHANGED <<written, handed>>
       ELSE pc' = "post_to_channel" /\ written' = TRUE /\ handed' = TRUE
    /\ UNCHANGED <<construction, error, options, content, echoed, uploaded,
                   reported, fn>>

\* lines 47-56: the assertion on the token, the upload and the test of its response
PostToChannel(ok) ==
    /\ pc = "post_to_channel"
    /\ IF ~token
       THEN Raise("assert") /\ UNCHANGED <<uploaded, reported>>
       ELSE /\ uploaded' = TRUE
            /\ reported' = ~ok
            /\ pc' = "shown"
            /\ UNCHANGED error
    /\ UNCHANGED <<construction, options, content, echoed, written, handed, fn>>

PostToChannelAny == \E ok \in BOOLEAN : PostToChannel(ok)

NextShow ==
    \/ Render
    \/ ParseOutput
    \/ ViewToSlack
    \/ PostToChannelAny

SpecShow == InitShow /\ [][NextShow]_vars

\* ---- properties ------------------------------------------------------------

IsPrefix(s, t) == Len(s) <= Len(t) /\ SubSeq(t, 1, Len(s)) = s

StrictlyAscending(s) == \A k \in 1..Len(s) - 1 : s[k] < s[k + 1]

Running == pc # "idle"
ViewReady == pc \in {"load_intent", "done"} \/ (pc = "failed" /\ error = "intent")
Ended == pc \in {"done", "failed"}
FetchErrors == {"exhausted", "transport", "query", "parse", "normalize"}

\* the latest stored snapshot when the invocation started
Latest0 == json_loads(log0[Len(log0)])

\* the refresh policy of the specification, on the state the invocation started in
NeedsRefresh0 ==
    \/ log0 = <<>>
    \/ refresh
    \/ now0 - Latest0.timestamp > REFRESH_HOURS

\* C1: in one invocation _view_from_route_server is called at most once and at
\* most one record is appended to the log.
C1_AtMostOneFetch == fetches <= 1 /\ appended <= 1

\* C2: when the intent source is missing or malformed, no session-open attempt
\* is made and no record is appended in the invocation.
C2_IntentFailsBeforeFetch == ~intent_ok => (~opened /\ appended = 0 /\ log = log0)

\* C3: a fetch that is running or has failed has left the log file as it was
\* when the fetch started.
C3_FailedFetchKeepsLog ==
    (pc \in {"connect", "sleep", "query", "normalize"}
       \/ (pc = "failed" /\ error \in FetchErrors))
    => (log = fetchLog /\ fileExists = fetchExists)

C3_Witness == pc = "failed" /\ error = "normalize" /\ log # <<>>

\* C4: an invocation fetches only if the latest stored snapshot is absent, the
\* force flag is set or the snapshot is strictly more than 8 hours old; once
\* the view is decided it has fetched in each of these cases; and when none
\* holds (a snapshot aged exactly 8 hours included) no session is opened and
\* the log is unchanged.
C4_FetchIffNeeded ==
    Running =>
        /\ fetches >= 1 => NeedsRefresh0
        /\ (ViewReady \/ Ended) => (NeedsRefresh0 => fetches >= 1)
        /\ ~NeedsRefresh0 => (~opened /\ log = log0 /\ appended = 0)

C4_Witness ==
    /\ pc = "done"
    /\ log0 # <<>>
    /\ ~refresh
    /\ now0 - Latest0.timestamp = REFRESH_HOURS
    /\ fetches = 0
    /\ log = log0

\* C5: a fetch makes at most 5 session-open attempts; the query is reached
\* right after the first successful attempt; 5 authentication failures mean
\* 5 attempts, no query, and the retries-exhausted failure.
C5_AtMostFiveAttempts ==
    /\ attempts <= RETRIES
    /\ (pc = "query" \/ (pc = "failed" /\ error \in {"query", "parse"}))
         => (success /\ lastOutcome = "ok" /\ attempts = authFails + 1)
    /\ issued >= 1 => (pc \in {"normalize", "failed"} /\ error # "exhausted")
    /\ authFails = RETRIES
         => /\ attempts = RETRIES
            /\ issued = 0
            /\ pc \in {"sleep", "failed"}
            /\ pc = "failed" => error = "exhausted"
    /\ error = "exhausted"
         => (pc = "failed" /\ attempts = RETRIES /\ authFails = RETRIES /\ issued = 0)

C5_Witness == pc = "failed" /\ error = "exhausted" /\ attempts = RETRIES

\* C6: a session-open failure that is not an authentication failure ends the
\* invocation on that attempt: no sleep follows it and no further attempt,
\* however many authentication failures came before.
C6_OtherFailureNotRetried ==
    lastOutcome = "other"
    => /\ pc = "failed"
       /\ error = "transport"
       /\ attempts = authFails + 1
       /\ sleeps = authFails
       /\ issued = 0

C6_Witness == lastOutcome = "other" /\ pc = "failed" /\ authFails >= 1

\* C7: every step leaves the log a prefix of the new log and the file in
\* existence; the log grows by exactly one record in the step that completes a
\* fetch and in no other step.
C7_AppendOnly ==
    [][/\ IsPrefix(log, log')
       /\ fileExists => fileExists'
       /\ IF pc = "normalize" /\ pc' # "failed"
          THEN Len(log') = Len(log) + 1
          ELSE log' = log]_vars

C7_Witness == Ended /\ log0 # <<>> /\ appended >= 1 /\ Len(log) = Len(log0) + 1

\* C8: reading the latest record after an append gives the report that was
\* appended, and the view of an invocation that fetched is the report of its
\* last fetch, the last record of the log.
C8_RoundTrip ==
    /\ lastReport # None
         => read_file(fileExists, log) = [raised |-> FALSE, value |-> lastReport]
    /\ (ViewReady /\ fetches >= 1)
         => (view # None /\ view = lastReport
               /\ view[1] = json_loads(log[Len(log)]))

C8_Witness ==
    /\ pc = "done"
    /\ fetches >= 1
    /\ Len(log) >= 2
    /\ json_loads(log[1]) # view[1]

\* C9: an invocation that starts on a store without records, whether the file
\* is missing or exists and is empty, never fails on reading it; it fetches
\* (twice when the force flag is set), appends what it fetched and uses the
\* last appended snapshot.
C9_EmptyStoreIsAbsent ==
    (Running /\ log0 = <<>>)
    => /\ error # "read"
       /\ ViewReady
            => /\ fetches = (IF refresh THEN 2 ELSE 1)
               /\ appended = fetches
               /\ Len(log) = appended
               /\ view # None /\ view = lastReport

C9_Witness == pc = "done" /\ exists0 /\ log0 = <<>> /\ view # None

\* C10: in every record of the log every prefix's AS-number list is strictly
\* ascending.
C10_PathsStrictlyAscending ==
    \A i \in 1..Len(log) :
        LET contents == json_loads(log[i]).contents
        IN  \A k \in 1..Len(contents) : StrictlyAscending(contents[k].path)

C10_Witness ==
    \E i \in 1..Len(log) :
        LET contents == json_loads(log[i]).contents
        IN  \E k \in 1..Len(contents) : Len(contents[k].path) >= 2

\* a call of _view_from_route_server of this invocation has ended without a record
FetchFailed ==
    fetches > appended /\ pc \notin {"connect", "sleep", "query", "normalize"}

\* C15: once a fetch has failed the invocation is over with the failure of the
\* fetch: self.view was never set (no stored snapshot stands in for the missing
\* one) and nothing has been rendered, echoed, written or handed to Slack.
C15_FailedFetchAborts ==
    FetchFailed
    => /\ pc = "failed"
       /\ error \in FetchErrors
       /\ view = None
       /\ content = None
       /\ ~echoed /\ ~written /\ ~handed /\ ~uploaded

C15_Witness == pc = "failed" /\ error \in FetchErrors /\ log0 # <<>> /\ log = log0

\* C17: when the retries are exhausted the 5 attempts were separated by 4 waits:
\* no wait follows the last attempt.
C17_NoWaitAfterLastAttempt ==
    error = "exhausted" => (attempts = RETRIES /\ sleeps = attempts - 1)

\* C18: the view an invocation for an ASN goes on to use is a snapshot that was
\* fetched by a query for that ASN.
C18_ViewIsForAsn == (ViewReady /\ view # None) => lastAsn = asn

\* the networks of the records
NetworksIn(parsed) == {parsed[k].network : k \in 1..Len(parsed)}

\* no record of network n has an AS number next to the target
NoAdjacency(parsed, a, n) ==
    \A k \in 1..Len(parsed) :
        parsed[k].network = n => pattern_search(parsed[k].as_path, a) = None

\* C11: the keys of a new snapshot's contents are the distinct networks of the
\* parsed records, each once and in ascending order, and a network without an
\* adjacent AS number in any of its records is a key with the empty list.
C11_KeysAreNetworks ==
    (fn.stage = "out" /\ fn.op = "normalize" /\ fn.out # None)
    => LET data == fn.out[1]
       IN  /\ {data[k].network : k \in 1..Len(data)} = NetworksIn(fn.parsed)
           /\ Len(data) = Cardinality(NetworksIn(fn.parsed))
           /\ \A k \in 1..Len(data) - 1 : data[k].network < data[k + 1].network
           /\ \A k \in 1..Len(data) :
                  NoAdjacency(fn.parsed, fn.a, data[k].network)
                  => data[k].path = <<>>

C11_Witness ==
    /\ fn.stage = "out" /\ fn.op = "normalize" /\ fn.out # None
    /\ Len(fn.parsed) = 2
    /\ fn.parsed[1].network > fn.parsed[2].network
    /\ Len(fn.out[1]) = 2
    /\ fn.out[1][1].path = <<>>

\* the token before the first occurrence of the target as a whole token that has
\* a token before it; None when there is no such occurrence
token_before(ts, a) ==
    LET hits == {i \in 2..Len(ts) : ts[i] = a}
    IN  IF hits = {} THEN None
        ELSE Some(ts[(CHOOSE i \in hits : \A j \in hits : i <= j) - 1])

\* C16: a record contributes the whole token immediately before the target ASN
\* in its AS path, and nothing when the target is not a token with a token
\* before it.
C16_WholeTokenAdjacency ==
    (fn.stage = "out" /\ fn.op = "search") => fn.out = token_before(fn.tokens, fn.a)

\* the content has been rendered by the alert output type
AlertRendered == output_type = "alert" /\ content # None

\* every prefix of the contents is declared with a list equal to the observed
\* one, element by element
AllDeclaredEqual(contents, it) ==
    \A k \in 1..Len(contents) :
        /\ contents[k].network \in DOMAIN it
        /\ Len(it[contents[k].network]) = Len(contents[k].path)
        /\ \A i \in 1..Len(contents[k].path) :
               it[contents[k].network][i] = contents[k].path[i]

OkText == <<Piece("OK", 0, <<>>, <<>>), Piece("no_alerts", 0, <<>>, <<>>)>>

\* C12: the alert rendering is exactly "[OK] No alerts!" if and only if every
\* prefix of the view's contents is declared in the intent with a list equal to
\* the observed one as an ordered sequence; otherwise it begins with "[CRITICAL]".
C12_AlertOkIffAllMatch ==
    AlertRendered
    => /\ (content[1] = OkText) <=> AllDeclaredEqual(view[1].contents, intent)
       /\ ~AllDeclaredEqual(view[1].contents, intent)
          => content[1][1].kind = "CRITICAL"

C12_Witness ==
    /\ AlertRendered
    /\ Len(view[1].contents) = 1
    /\ view[1].contents[1].network \in DOMAIN intent
    /\ view[1].contents[1].path = <<2, 3>>
    /\ intent[view[1].contents[1].network] = <<3, 2>>
    /\ content[1][1].kind = "CRITICAL"

\* the prefixes of the contents
ViewPrefixes == {view[1].contents[k].network : k \in 1..Len(view[1].contents)}

\* the intent without the prefixes that the contents lack
IntentInView == [p \in DOMAIN intent \cap ViewPrefixes |-> intent[p]]

\* C19: the comparison examines only the prefixes of the view: every finding is
\* about a prefix of the contents, the prefixes declared only in the intent do
\* not change the rendering, and empty contents give "[OK] No alerts!" for
\* every intent.
C19_OnlyViewPrefixes ==
    AlertRendered
    => /\ \A k \in 1..Len(content[1]) :
              content[1][k].kind \in {"not_found", "mismatch"}
              => content[1][k].network \in ViewPrefixes
       /\ content[1] = alert_view(view[1], IntentInView)
       /\ view[1].contents = <<>> => content[1] = OkText

C19_Witness ==
    /\ AlertRendered
    /\ view[1].contents = <<>>
    /\ DOMAIN intent = {1, 2}
    /\ content[1] = OkText

\* show has ended, normally or with an exception
ShowEnded == pc \in {"shown", "failed"}

\* C13: with a channel the rendered text is never echoed; it is handed to the
\* delivery exactly when it holds the critical marker or alerts-only is unset;
\* when it is suppressed no file is written and no delivery is attempted.
C13_HandedIffCriticalOrAlways ==
    /\ channel => ~echoed
    /\ handed => channel
    /\ (channel /\ ShowEnded)
       => /\ handed <=> (contains_critical(content[1]) \/ ~alerts_only)
          /\ ~handed => (~written /\ ~uploaded /\ ~reported)

C13_Witness ==
    /\ channel /\ alerts_only /\ ShowEnded
    /\ contains_critical(content[1])
    /\ handed /\ written /\ ~echoed

\* C14: a delivery that cannot be made never fails the invocation: once the
\* content has been handed to the delivery, show ends normally.
C14_DeliveryFailureNotFatal ==
    (handed /\ ShowEnded) => (pc = "shown" /\ error = "none")

====
